---- MODULE Spec2Model ----
(***************************************************************************)
(* The analysis request pipeline of the SpaceNet wrapper API               *)
(* (app/main.py, app/demands_analysis.py).                                 *)
(*                                                                         *)
(* Each request handler is a coroutine on one event-loop thread.  The code *)
(* between two awaits runs without interleaving; `running` names the       *)
(* request that holds the loop thread in the middle of such a segment      *)
(* (0: the loop is free).  subprocess.check_output is a synchronous call,  *)
(* so the request that made it holds the thread until the call ends.       *)
(* A file operation that a handler awaits is carried out by a worker       *)
(* thread, whether the loop thread is free or not (io: "queued", then      *)
(* "done"); the handler goes on from it when the loop thread is free.      *)
(*                                                                         *)
(* Paths are sequences of components from the file-system root.  The       *)
(* content of a file or of an upload is a sequence of pieces, a piece      *)
(* being the bytes from..to of a document known by its name and its size;  *)
(* JsonLoads gives the JSON tree a text decodes to.  The engine's captured *)
(* output is a string.                                                     *)
(***************************************************************************)
EXTENDS Integers, Sequences, FiniteSets, TLC

\* Number of request slots (concurrent requests of the run).
NumRequests == 2

Requests == 1..NumRequests

\* main.py:23  os.getenv("SPACENET_TIMEOUT", 10): the default, an int.
DefaultTimeout == 10

(***************************************************************************)
(* Paths and the file system                                               *)
(***************************************************************************)

Front(s) == SubSeq(s, 1, Len(s) - 1)

IsPrefix(p, q) == Len(p) <= Len(q) /\ SubSeq(q, 1, Len(p)) = p

Range(s) == {s[i] : i \in DOMAIN s}

\* tempfile.gettempdir()
TmpRoot == <<"tmp">>

\* TemporaryDirectory(): mkdtemp gives every request a directory of its own
\* under the temp root, with a name no upload can know.
tempdir(r) == TmpRoot \o <<"tmp" \o ToString(r)>>

\* The filename hints an upload may carry (UploadFile.filename is taken from
\* the multipart header as sent): a plain name, the name of the result file,
\* an absolute path, a traversal, a name with a separator, a bare "..".
Filenames ==
    { [abs |-> FALSE, comps |-> <<"scenario.xml">>],
      [abs |-> FALSE, comps |-> <<"results.json">>],
      [abs |-> TRUE,  comps |-> <<"tmp", "shared.xml">>],
      [abs |-> FALSE, comps |-> <<"..", "shared.xml">>],
      [abs |-> FALSE, comps |-> <<"sub", "scenario.xml">>],
      [abs |-> FALSE, comps |-> <<"..">>] }

NoFilename == [abs |-> FALSE, comps |-> <<>>]

\* os.path.join(a, b): b alone when b is absolute, else a/b.
OsPathJoin(a, b) == IF b.abs THEN b.comps ELSE a \o b.comps

\* The kernel's path walk: ".." steps to the parent (the root is its own
\* parent), every component but the last must be an existing directory.
RECURSIVE WalkFrom(_, _, _)
WalkFrom(ds, cur, rest) ==
    IF rest = <<>> THEN [ok |-> TRUE, path |-> cur]
    ELSE IF Head(rest) = ".."
         THEN WalkFrom(ds, IF cur = <<>> THEN <<>> ELSE Front(cur), Tail(rest))
    ELSE IF Tail(rest) = <<>>
         THEN [ok |-> TRUE, path |-> Append(cur, Head(rest))]
    ELSE IF Append(cur, Head(rest)) \in ds
         THEN WalkFrom(ds, Append(cur, Head(rest)), Tail(rest))
    ELSE [ok |-> FALSE, path |-> <<>>]

Walk(ds, p) == WalkFrom(ds, <<>>, p)

\* open(p, "wb"): fails when the walk fails, when p is a directory, or when
\* its parent is not one; else the file exists, truncated.
CanOpenWrite(ds, p) ==
    LET w == Walk(ds, p)
    IN  w.ok /\ w.path \notin ds /\ w.path # <<>> /\ Front(w.path) \in ds

\* The exception a failing open(p, "wb") raises.
OpenWriteError(ds, p) ==
    LET w == Walk(ds, p)
    IN  IF w.ok /\ (w.path \in ds \/ w.path = <<>>)
        THEN "IsADirectoryError"
        ELSE "FileNotFoundError"

\* open(p, "r"): the file must exist.
CanOpenRead(ds, fs, p) ==
    LET w == Walk(ds, p)
    IN  w.ok /\ w.path \in DOMAIN fs

PutFile(fs, p, text) ==
    [q \in DOMAIN fs \cup {p} |-> IF q = p THEN text ELSE fs[q]]

\* The documents, by name, and the number of bytes of each: the XML
\* scenarios, and the JSON documents as json.dumps writes the trees that
\* JsonLoads gives for them.
Size(doc) ==
    CASE doc = "<scenario/>" -> 11
      [] doc = "scenario_big" -> 8193
      [] doc = "raw_empty" -> 15
      [] doc = "raw_one" -> 359
      [] doc = "raw_liquid" -> 357
      [] doc = "agg_ok" -> 828
      [] doc = "agg_mass_over" -> 520
      [] doc = "agg_volume_over" -> 506
      [] doc = "agg_no_max" -> 236
      [] doc = "not json" -> 8
      [] OTHER -> 1

\* The text that is a document from its first byte to its last.
Whole(doc) == <<[doc |-> doc, from |-> 1, to |-> Size(doc)]>>

\* len(text)
RECURSIVE TextLen(_)
TextLen(text) ==
    IF text = <<>> THEN 0
    ELSE (Head(text).to - Head(text).from + 1) + TextLen(Tail(text))

\* text[n:]
RECURSIVE Drop(_, _)
Drop(text, n) ==
    IF text = <<>> \/ n = 0 THEN text
    ELSE LET h == Head(text)
             l == h.to - h.from + 1
         IN  IF n >= l THEN Drop(Tail(text), n - l)
             ELSE <<[h EXCEPT !.from = h.from + n]>> \o Tail(text)

\* write(2) of new at offset 0 of a file that holds old: the bytes of new
\* replace the first len(new) bytes, what old holds beyond them stays.
Overlay(old, new) == new \o Drop(old, TextLen(new))

\* shutil.rmtree(d): the directory and everything under it.
RmTreeFiles(fs, d) ==
    [q \in {x \in DOMAIN fs : ~IsPrefix(d, x)} |-> fs[q]]

RmTreeDirs(ds, d) == {x \in ds : ~IsPrefix(d, x)}

(***************************************************************************)
(* Texts and JSON                                                          *)
(***************************************************************************)

EmptyText == <<>>

\* An uploaded scenario: an XML document.
ScenarioXml == Whole("<scenario/>")

\* An XML document of one byte more than the buffer of a file object.
ScenarioBig == Whole("scenario_big")

\* The JSON documents.
RawEmpty == Whole("raw_empty")

RawOne == Whole("raw_one")

RawLiquid == Whole("raw_liquid")

AggOk == Whole("agg_ok")

AggMassOver == Whole("agg_mass_over")

AggVolumeOver == Whole("agg_volume_over")

AggNoMax == Whole("agg_no_max")

NotJson == Whole("not json")

\* JSON values, tagged by their JSON type.
JNum(n) == [t |-> "num", v |-> n]

JStr(s) == [t |-> "str", v |-> s]

JArr(a) == [t |-> "arr", v |-> a]

JObj(o) == [t |-> "obj", v |-> o]

JNull == [t |-> "null", v |-> 0]

JLocation(id, name) == JObj([id |-> JNum(id), name |-> JStr(name)])

JResourceType(type) ==
    JObj([type |-> JStr(type), name |-> JStr("Water"), classOfSupply |-> JNum(201),
          environment |-> JStr("Unpressurized"), units |-> JStr("kg"),
          unitMass |-> JNum(1), unitVolume |-> JNum(1), packingFactor |-> JNum(0)])

JResource(type, amount) ==
    JObj([resource |-> JResourceType(type), amount |-> JNum(amount),
          mass |-> JNum(amount), volume |-> JNum(amount)])

JRawDemand(type) ==
    JObj([time |-> JNum(0), location |-> JLocation(1, "KSC"), element |-> JNull,
          consumption |-> JArr(<<JResource(type, 5)>>),
          totalMass |-> JNum(5), totalVolume |-> JNum(5), comment |-> JStr("x")])

JNodeDemand ==
    JObj([time |-> JNum(2), location |-> JLocation(2, "LEO"),
          production |-> JArr(<<JResource("Generic", 3)>>),
          totalMass |-> JNum(3), totalVolume |-> JNum(3)])

JEdgeDemand(maxMass, netMass, maxVolume, netVolume) ==
    JObj([startTime |-> JNum(0), endTime |-> JNum(3),
          origin |-> JLocation(1, "KSC"), destination |-> JLocation(2, "LEO"),
          location |-> JLocation(3, "KSC-LEO"),
          consumption |-> JArr(<<JResource("Continuous", 4)>>),
          totalMass |-> JNum(4), totalVolume |-> JNum(4),
          maxCargoMass |-> JNum(maxMass), netCargoMass |-> JNum(netMass),
          maxCargoVolume |-> JNum(maxVolume), netCargoVolume |-> JNum(netVolume)])

\* The texts the engine may leave at the output path.
ResultTexts ==
    { RawEmpty, RawOne, RawLiquid, AggOk, AggMassOver, AggVolumeOver, AggNoMax,
      NotJson }

\* The texts an upload may hold: an XML document, small or large, or a
\* JSON document.
Uploads == { ScenarioXml, ScenarioBig, RawOne }

\* json.loads(text): the JSON tree of a text, or a decoding error: a text
\* that is not one whole JSON document does not decode.
JsonLoads(text) ==
    CASE text = RawEmpty ->
           [ok |-> TRUE, val |-> JObj([demands |-> JArr(<<>>)])]
      [] text = RawOne ->
           [ok |-> TRUE, val |-> JObj([demands |-> JArr(<<JRawDemand("Discrete")>>)])]
      [] text = RawLiquid ->
           [ok |-> TRUE, val |-> JObj([demands |-> JArr(<<JRawDemand("Liquid")>>)])]
      [] text = AggOk ->
           [ok |-> TRUE, val |-> JObj([nodes |-> JArr(<<JNodeDemand>>),
                                       edges |-> JArr(<<JEdgeDemand(9, 5, 7, 7)>>)])]
      [] text = AggMassOver ->
           [ok |-> TRUE, val |-> JObj([nodes |-> JArr(<<>>),
                                       edges |-> JArr(<<JEdgeDemand(9, 12, 7, 2)>>)])]
      [] text = AggVolumeOver ->
           [ok |-> TRUE, val |-> JObj([edges |-> JArr(<<JEdgeDemand(9, 9, 7, 8)>>)])]
      [] text = AggNoMax ->
           [ok |-> TRUE,
            val |-> JObj([edges |-> JArr(<<JObj([startTime |-> JNum(0), endTime |-> JNum(3),
                              origin |-> JLocation(1, "KSC"),
                              destination |-> JLocation(2, "LEO"),
                              location |-> JLocation(3, "KSC-LEO"),
                              totalMass |-> JNum(4), totalVolume |-> JNum(4),
                              netCargoMass |-> JNum(1), netCargoVolume |-> JNum(1)])>>)])]
      [] OTHER -> [ok |-> FALSE, val |-> JNull]

(***************************************************************************)
(* The domain model (demands_analysis.py): pydantic models whose fields    *)
(* are read by their camelCase alias (CamelModel), or by their own name.   *)
(* A validator gives [ok, val]: val is the field's value when ok.          *)
(***************************************************************************)

Invalid == [ok |-> FALSE, val |-> 0]

Valid(v) == [ok |-> TRUE, val |-> v]

None == [none |-> TRUE]

\* float and int fields: a JSON number (the texts here hold no numeric
\* strings, which pydantic would convert, and no number with a fraction).
float(j) == IF j.t = "num" THEN Valid(j.v) ELSE Invalid

int(j) == IF j.t = "num" THEN Valid(j.v) ELSE Invalid

\* str fields: a JSON string and nothing else; a number is refused
\* (string_type).
str(j) == IF j.t = "str" THEN Valid(j.v) ELSE Invalid

\* The key a field is read from: its alias, else its name.
HasField(o, alias, name) == alias \in DOMAIN o \/ name \in DOMAIN o

JMissing == [t |-> "missing", v |-> 0]

\* The JSON value given for a field, JMissing when its key is absent.  No
\* validator accepts JMissing or JNull: a field declared Field(...) is
\* required, and null is not a value for it.
GetField(o, alias, name) ==
    IF alias \in DOMAIN o THEN o[alias]
    ELSE IF name \in DOMAIN o THEN o[name]
    ELSE JMissing

\* Field(default): the default when the key is absent, else the validated
\* value.
Defaulted(j, validated, default) ==
    IF j.t = "missing" THEN Valid(default) ELSE validated

\* Optional[...] = Field(None): None when the key is absent or null.
Optional(j, validated) ==
    IF j.t \in {"missing", "null"} THEN Valid(None) ELSE validated

\* List[...]: every element must validate.
AllValid(rs) ==
    IF \A i \in DOMAIN rs : rs[i].ok
    THEN Valid([i \in DOMAIN rs |-> rs[i].val])
    ELSE Invalid

ResourceTypeTypeValues == {"Generic", "Continuous", "Discrete"}

EnvironmentValues == {"Pressurized", "Unpressurized"}

ResourceTypeType(j) ==
    IF j.t = "str" /\ j.v \in ResourceTypeTypeValues THEN Valid(j.v) ELSE Invalid

Environment(j) ==
    IF j.t = "str" /\ j.v \in EnvironmentValues THEN Valid(j.v) ELSE Invalid

\* class ResourceType(CamelModel)
ResourceType(j) ==
    IF j.t # "obj" THEN Invalid
    ELSE LET type == ResourceTypeType(GetField(j.v, "type", "type"))
             name == str(GetField(j.v, "name", "name"))
             class_of_supply == int(GetField(j.v, "classOfSupply", "class_of_supply"))
             environment == Environment(GetField(j.v, "environment", "environment"))
             units == str(GetField(j.v, "units", "units"))
             unit_mass == float(GetField(j.v, "unitMass", "unit_mass"))
             unit_volume == float(GetField(j.v, "unitVolume", "unit_volume"))
             packing_factor == float(GetField(j.v, "packingFactor", "packing_factor"))
         IN  IF /\ type.ok /\ name.ok /\ class_of_supply.ok /\ environment.ok
                /\ units.ok /\ unit_mass.ok /\ unit_volume.ok /\ packing_factor.ok
             THEN Valid([type |-> type.val, name |-> name.val,
                         class_of_supply |-> class_of_supply.val,
                         environment |-> environment.val, units |-> units.val,
                         unit_mass |-> unit_mass.val, unit_volume |-> unit_volume.val,
                         packing_factor |-> packing_factor.val])
             ELSE Invalid

\* class Location(CamelModel)
Location(j) ==
    IF j.t # "obj" THEN Invalid
    ELSE LET id == int(GetField(j.v, "id", "id"))
             name == str(GetField(j.v, "name", "name"))
         IN  IF id.ok /\ name.ok
             THEN Valid([id |-> id.val, name |-> name.val])
             ELSE Invalid

\* class Element(CamelModel)
Element(j) ==
    IF j.t # "obj" THEN Invalid
    ELSE LET id == int(GetField(j.v, "id", "id"))
             name == str(GetField(j.v, "name", "name"))
         IN  IF id.ok /\ name.ok
             THEN Valid([id |-> id.val, name |-> name.val])
             ELSE Invalid

\* class Resource(CamelModel)
Resource(j) ==
    IF j.t # "obj" THEN Invalid
    ELSE LET resource == ResourceType(GetField(j.v, "resource", "resource"))
             amount == float(GetField(j.v, "amount", "amount"))
             mass == float(GetField(j.v, "mass", "mass"))
             volume == float(GetField(j.v, "volume", "volume"))
         IN  IF resource.ok /\ amount.ok /\ mass.ok /\ volume.ok
             THEN Valid([resource |-> resource.val, amount |-> amount.val,
                         mass |-> mass.val, volume |-> volume.val])
             ELSE Invalid

Resources(j) ==
    IF j.t # "arr" THEN Invalid
    ELSE AllValid([i \in DOMAIN j.v |-> Resource(j.v[i])])

\* class RawDemand(CamelModel)
RawDemand(j) ==
    IF j.t # "obj" THEN Invalid
    ELSE LET time == float(GetField(j.v, "time", "time"))
             location == Location(GetField(j.v, "location", "location"))
             element ==
                 Optional(GetField(j.v, "element", "element"),
                          Element(GetField(j.v, "element", "element")))
             consumption ==
                 Defaulted(GetField(j.v, "consumption", "consumption"),
                           Resources(GetField(j.v, "consumption", "consumption")), <<>>)
             production ==
                 Defaulted(GetField(j.v, "production", "production"),
                           Resources(GetField(j.v, "production", "production")), <<>>)
             total_mass == float(GetField(j.v, "totalMass", "total_mass"))
             total_volume == float(GetField(j.v, "totalVolume", "total_volume"))
         IN  IF /\ time.ok /\ location.ok /\ element.ok /\ consumption.ok
                /\ production.ok /\ total_mass.ok /\ total_volume.ok
             THEN Valid([time |-> time.val, location |-> location.val,
                         element |-> element.val, consumption |-> consumption.val,
                         production |-> production.val, total_mass |-> total_mass.val,
                         total_volume |-> total_volume.val])
             ELSE Invalid

RawDemands(j) ==
    IF j.t # "arr" THEN Invalid
    ELSE AllValid([i \in DOMAIN j.v |-> RawDemand(j.v[i])])

\* class RawDemandsAnalysis(CamelModel)
RawDemandsAnalysis(j) ==
    IF j.t # "obj" THEN Invalid
    ELSE LET demands ==
                 Defaulted(GetField(j.v, "demands", "demands"),
                           RawDemands(GetField(j.v, "demands", "demands")), <<>>)
         IN  IF demands.ok THEN Valid([demands |-> demands.val]) ELSE Invalid

\* class NodeDemand(CamelModel)
NodeDemand(j) ==
    IF j.t # "obj" THEN Invalid
    ELSE LET time == float(GetField(j.v, "time", "time"))
             location == Location(GetField(j.v, "location", "location"))
             consumption ==
                 Defaulted(GetField(j.v, "consumption", "consumption"),
                           Resources(GetField(j.v, "consumption", "consumption")), <<>>)
             production ==
                 Defaulted(GetField(j.v, "production", "production"),
                           Resources(GetField(j.v, "production", "production")), <<>>)
             total_mass == float(GetField(j.v, "totalMass", "total_mass"))
             total_volume == float(GetField(j.v, "totalVolume", "total_volume"))
         IN  IF /\ time.ok /\ location.ok /\ consumption.ok /\ production.ok
                /\ total_mass.ok /\ total_volume.ok
             THEN Valid([time |-> time.val, location |-> location.val,
                         consumption |-> consumption.val, production |-> production.val,
                         total_mass |-> total_mass.val, total_volume |-> total_volume.val])
             ELSE Invalid

\* class EdgeDemand(CamelModel): eleven required fields and two lists, each
\* validated alone; the class declares no validator relating two fields.
EdgeDemand(j) ==
    IF j.t # "obj" THEN Invalid
    ELSE LET start_time == float(GetField(j.v, "startTime", "start_time"))
             end_time == float(GetField(j.v, "endTime", "end_time"))
             origin == Location(GetField(j.v, "origin", "origin"))
             destination == Location(GetField(j.v, "destination", "destination"))
             location == Location(GetField(j.v, "location", "location"))
             consumption ==
                 Defaulted(GetField(j.v, "consumption", "consumption"),
                           Resources(GetField(j.v, "consumption", "consumption")), <<>>)
             production ==
                 Defaulted(GetField(j.v, "production", "production"),
                           Resources(GetField(j.v, "production", "production")), <<>>)
             total_mass == float(GetField(j.v, "totalMass", "total_mass"))
             total_volume == float(GetField(j.v, "totalVolume", "total_volume"))
             max_cargo_mass == float(GetField(j.v, "maxCargoMass", "max_cargo_mass"))
             net_cargo_mass == float(GetField(j.v, "netCargoMass", "net_cargo_mass"))
             max_cargo_volume == float(GetField(j.v, "maxCargoVolume", "max_cargo_volume"))
             net_cargo_volume == float(GetField(j.v, "netCargoVolume", "net_cargo_volume"))
         IN  IF /\ start_time.ok /\ end_time.ok /\ origin.ok /\ destination.ok
                /\ location.ok /\ consumption.ok /\ production.ok /\ total_mass.ok
                /\ total_volume.ok /\ max_cargo_mass.ok /\ net_cargo_mass.ok
                /\ max_cargo_volume.ok /\ net_cargo_volume.ok
             THEN Valid([start_time |-> start_time.val, end_time |-> end_time.val,
                         origin |-> origin.val, destination |-> destination.val,
                         location |-> location.val, consumption |-> consumption.val,
                         production |-> production.val, total_mass |-> total_mass.val,
                         total_volume |-> total_volume.val,
                         max_cargo_mass |-> max_cargo_mass.val,
                         net_cargo_mass |-> net_cargo_mass.val,
                         max_cargo_volume |-> max_cargo_volume.val,
                         net_cargo_volume |-> net_cargo_volume.val])
             ELSE Invalid

NodeDemands(j) ==
    IF j.t # "arr" THEN Invalid
    ELSE AllValid([i \in DOMAIN j.v |-> NodeDemand(j.v[i])])

EdgeDemands(j) ==
    IF j.t # "arr" THEN Invalid
    ELSE AllValid([i \in DOMAIN j.v |-> EdgeDemand(j.v[i])])

\* class AggregatedDemandsAnalysis(CamelModel)
AggregatedDemandsAnalysis(j) ==
    IF j.t # "obj" THEN Invalid
    ELSE LET nodes ==
                 Defaulted(GetField(j.v, "nodes", "nodes"),
                           NodeDemands(GetField(j.v, "nodes", "nodes")), <<>>)
             edges ==
                 Defaulted(GetField(j.v, "edges", "edges"),
                           EdgeDemands(GetField(j.v, "edges", "edges")), <<>>)
         IN  IF nodes.ok /\ edges.ok
             THEN Valid([nodes |-> nodes.val, edges |-> edges.val])
             ELSE Invalid

\* Model.parse_raw(text): decode the JSON, then validate it as the model.
parse_raw(model, text) ==
    LET d == JsonLoads(text)
    IN  IF ~d.ok THEN Invalid
        ELSE IF model = "RawDemandsAnalysis" THEN RawDemandsAnalysis(d.val)
        ELSE AggregatedDemandsAnalysis(d.val)

(***************************************************************************)
(* The service (main.py)                                                   *)
(***************************************************************************)

VARIABLES
    closing_quotes,     \* the quotes that end the docstring of docs_redirect
    app,                \* the module: "importing", "serving", or the error of its import
    spacenet_timeout,   \* the module global: [number, text]
    dirs,               \* the directories that exist
    files,              \* the files that exist: path -> text
    running,            \* the request holding the event-loop thread, or 0
    pc,                 \* where each request's handler stands
    io,                 \* the file operation the handler awaits: "queued", "done"
    op,                 \* the endpoint of each request
    filename,           \* scenario_file.filename
    consume_resources,  \* the query parameter
    upload,             \* the bytes of scenario_file not yet read
    content,            \* the handler's local
    scenario_path,      \* the handler's local
    results_path,       \* the handler's local
    new_scenario_file,  \* the file object of the staged file: [path, buffer]
    child,              \* the engine process of each request
    pending,            \* the text read, or the exception leaving the with block
    result              \* the response of each request

vars == <<closing_quotes, app, spacenet_timeout, dirs, files, running, pc, io, op,
          filename, consume_resources, upload, content, scenario_path,
          results_path, new_scenario_file, child, pending, result>>

\* The two endpoints; each names its engine mode.
Ops == {"demands-raw", "demands-agg"}

\* SPACENET_PATH
spacenet_path == <<"opt", "spacenet.jar">>

Jar == Whole("spacenet.jar")

\* main.py:37 ends the docstring of docs_redirect with four quotes.
ShippedClosingQuotes == 4

\* main.py as it stands, and main.py with that docstring ended by three
\* quotes (the handlers of lines 42-140 are the same in both).
ClosingQuotes == {ShippedClosingQuotes, 3}

\* Python ends a triple-quoted string at the first three quotes; a quote
\* left over opens a string that its line does not close.
Compile(quotes) == IF quotes = 3 THEN "code" ELSE "SyntaxError"

NoTimeout == [number |-> FALSE, text |-> ""]

\* os.getenv("SPACENET_TIMEOUT", 10): the int 10 when the variable is unset,
\* else the variable's value, a string.
TimeoutSettings ==
    { [number |-> TRUE, text |-> ToString(DefaultTimeout)],
      [number |-> FALSE, text |-> "2"] }

StrArg(s) == [kind |-> "str", s |-> s, p |-> <<>>]

PathArg(p) == [kind |-> "path", s |-> "", p |-> p]

\* The argument list handed to subprocess.check_output.
EngineArgs(mode, input, output, consume) ==
    << StrArg("java"), StrArg("-jar"), PathArg(spacenet_path), StrArg("-h"),
       StrArg(mode), StrArg("-i"), PathArg(input), StrArg("-o"), PathArg(output),
       StrArg(IF consume THEN "-c" ELSE "") >>

\* The engine is a black box: it exits with a code, has written some text
\* to its streams, and has or has not left a file at its -o path.
NoText == <<[doc |-> "<none>", from |-> 0, to |-> 0]>>

EngineOutputs == {"", "Exception in thread main"}

EngineBehaviours ==
    [code : {0}, output : {""}, wrote : ResultTexts \cup {NoText}]
    \cup [code : {1}, output : EngineOutputs, wrote : {NoText}]
    \cup [code : {1}, output : {"Exception in thread main"}, wrote : {RawEmpty}]

NoChild == [state |-> "none", argv |-> <<>>, code |-> 0, output |-> "", wrote |-> NoText]

NoPending == [kind |-> "none", status |-> 0, detail |-> "", text |-> NoText]

\* No file object: before the open and after the close.
NoFile == [path |-> <<>>, buffer |-> EmptyText]

\* The buffer of a file object opened by open(path, "wb"): st_blksize of
\* the file.
BlockSize == 4096

\* raise HTTPException(status_code, detail)
HTTPException(status, detail) ==
    [kind |-> "HTTPException", status |-> status, detail |-> detail, text |-> NoText]

\* Any other exception, by its class.
Raised(class) == [kind |-> class, status |-> 0, detail |-> "", text |-> NoText]

\* A handler that answers with a fixed message instead of the engine's output.
CalledProcessErrorFixedMessage(output) == HTTPException(422, "SpaceNet failed")

\* except subprocess.CalledProcessError as e: detail=e.output
CalledProcessErrorHandler(output) == HTTPException(422, output)

\* except subprocess.TimeoutExpired: detail=f"Timeout exceeded ({spacenet_timeout} s)"
TimeoutExpiredHandler(timeout) ==
    HTTPException(422, "Timeout exceeded (" \o timeout.text \o " s)")

NoResult == [status |-> 0, detail |-> "", error |-> "", body |-> None]

\* A handler pasted from the other endpoint without changing its model.
ParseResultsAsRaw(o, text) == parse_raw("RawDemandsAnalysis", text)

\* The model each endpoint parses its results with.
ParseResults(o, text) ==
    IF o = "demands-raw" THEN parse_raw("RawDemandsAnalysis", text)
    ELSE parse_raw("AggregatedDemandsAnalysis", text)

\* What the framework answers: the returned model with 200, an HTTPException
\* with its status and detail, any other exception with 500.
Response(o, p) ==
    IF p.kind = "HTTPException"
    THEN [status |-> p.status, detail |-> p.detail, error |-> "", body |-> None]
    ELSE IF p.kind = "results"
    THEN LET parsed == ParseResults(o, p.text)
         IN  IF parsed.ok
             THEN [status |-> 200, detail |-> "", error |-> "", body |-> parsed.val]
             ELSE [status |-> 500, detail |-> "", error |-> "ValidationError",
                   body |-> None]
    ELSE [status |-> 500, detail |-> "", error |-> p.kind, body |-> None]

\* A directory made with mkdtemp and never removed.
CleanupDirsNever(ds, d) == ds

\* TemporaryDirectory.__exit__: the directory is removed with its content.
CleanupDirs(ds, d) == RmTreeDirs(ds, d)

CleanupFiles(fs, d) == RmTreeFiles(fs, d)

\* The interpreter is about to import app.main: main.py is the file as it
\* stands or with the docstring of docs_redirect closed, and the engine's
\* JAR is installed or not.  No request is served before the import ends.
Init ==
    /\ closing_quotes \in ClosingQuotes
    /\ app = "importing"
    /\ spacenet_timeout = NoTimeout
    /\ dirs = {<<>>, TmpRoot, <<"opt">>}
    /\ files \in {(spacenet_path :> Jar), <<>>}
    /\ running = 0
    /\ pc = [r \in Requests |-> "idle"]
    /\ io = [r \in Requests |-> "none"]
    /\ op = [r \in Requests |-> "demands-raw"]
    /\ filename = [r \in Requests |-> NoFilename]
    /\ consume_resources = [r \in Requests |-> FALSE]
    /\ upload = [r \in Requests |-> EmptyText]
    /\ content = [r \in Requests |-> EmptyText]
    /\ scenario_path = [r \in Requests |-> <<>>]
    /\ results_path = [r \in Requests |-> <<>>]
    /\ new_scenario_file = [r \in Requests |-> NoFile]
    /\ child = [r \in Requests |-> NoChild]
    /\ pending = [r \in Requests |-> NoPending]
    /\ result = [r \in Requests |-> NoResult]

\* import app.main (lines 1-140).  The file is compiled first: a
\* SyntaxError ends the import before any line runs.  Then the module body
\* runs: RuntimeError when the JAR is not at SPACENET_PATH (lines 18-20),
\* else spacenet_timeout is loaded (line 23), the routes are registered and
\* the service takes requests.
Import ==
    /\ app = "importing"
    /\ IF Compile(closing_quotes) = "SyntaxError"
       THEN /\ app' = "SyntaxError"
            /\ UNCHANGED spacenet_timeout
       ELSE IF spacenet_path \notin DOMAIN files
       THEN /\ app' = "RuntimeError"
            /\ UNCHANGED spacenet_timeout
       ELSE /\ app' = "serving"
            /\ spacenet_timeout' \in TimeoutSettings
    /\ UNCHANGED <<closing_quotes, dirs, files, running, pc, io, op, filename,
                   consume_resources, upload, content, scenario_path, results_path,
                   new_scenario_file, child, pending, result>>

\* A request arrives: the handler runs to its first await, the opening of
\* the staged file (lines 54-58 / 105-109), which it hands to a worker
\* thread.
Accept(r) ==
    /\ app = "serving"
    /\ pc[r] = "idle" /\ running = 0
    /\ \E o \in Ops, f \in Filenames, c \in BOOLEAN, u \in Uploads :
          /\ op' = [op EXCEPT ![r] = o]
          /\ filename' = [filename EXCEPT ![r] = f]
          /\ consume_resources' = [consume_resources EXCEPT ![r] = c]
          /\ upload' = [upload EXCEPT ![r] = u]
          /\ scenario_path' = [scenario_path EXCEPT ![r] = OsPathJoin(tempdir(r), f)]
    /\ results_path' = [results_path EXCEPT ![r] =
                            OsPathJoin(tempdir(r), [abs |-> FALSE, comps |-> <<"results.json">>])]
    /\ dirs' = dirs \cup {tempdir(r)}
    /\ pc' = [pc EXCEPT ![r] = "open_scenario"]
    /\ io' = [io EXCEPT ![r] = "queued"]
    /\ UNCHANGED <<closing_quotes, app, spacenet_timeout, files, running, content,
                   new_scenario_file, child, pending, result>>

\* aiofiles.open(scenario_path, "wb") (line 58 / 109), in a worker thread:
\* the file is created or truncated and there is a file object on it, at
\* offset 0 with an empty buffer; or the open raises.
OpenScenario(r) ==
    /\ pc[r] = "open_scenario" /\ io[r] = "queued"
    /\ IF CanOpenWrite(dirs, scenario_path[r])
       THEN /\ files' = PutFile(files, Walk(dirs, scenario_path[r]).path, EmptyText)
            /\ new_scenario_file' = [new_scenario_file EXCEPT ![r] =
                                        [path |-> Walk(dirs, scenario_path[r]).path,
                                         buffer |-> EmptyText]]
            /\ UNCHANGED pending
       ELSE /\ pending' = [pending EXCEPT ![r] =
                              Raised(OpenWriteError(dirs, scenario_path[r]))]
            /\ UNCHANGED <<files, new_scenario_file>>
    /\ io' = [io EXCEPT ![r] = "done"]
    /\ UNCHANGED <<closing_quotes, app, spacenet_timeout, dirs, running, pc, op,
                   filename, consume_resources, upload, content, scenario_path,
                   results_path, child, result>>

\* content = await scenario_file.read() (line 59 / 110), in a worker
\* thread: the upload is read to its end.
ReadUpload(r) ==
    /\ pc[r] = "read_upload" /\ io[r] = "queued"
    /\ content' = [content EXCEPT ![r] = upload[r]]
    /\ upload' = [upload EXCEPT ![r] = EmptyText]
    /\ io' = [io EXCEPT ![r] = "done"]
    /\ UNCHANGED <<closing_quotes, app, spacenet_timeout, dirs, files, running, pc,
                   op, filename, consume_resources, scenario_path, results_path,
                   new_scenario_file, child, pending, result>>

\* await new_scenario_file.write(content) (line 60 / 111), in a worker
\* thread.  Bytes that fit the buffer of the file object go to the buffer
\* and the file is as it was; more bytes than that are written to the file
\* at once, at the file object's offset 0, over what the file holds.
WriteScenario(r) ==
    /\ pc[r] = "write_scenario" /\ io[r] = "queued"
    /\ IF TextLen(content[r]) > BlockSize
       THEN /\ files' = PutFile(files, new_scenario_file[r].path,
                                Overlay(files[new_scenario_file[r].path], content[r]))
            /\ UNCHANGED new_scenario_file
       ELSE /\ new_scenario_file' = [new_scenario_file EXCEPT ![r].buffer = content[r]]
            /\ UNCHANGED files
    /\ io' = [io EXCEPT ![r] = "done"]
    /\ UNCHANGED <<closing_quotes, app, spacenet_timeout, dirs, running, pc, op,
                   filename, consume_resources, upload, content, scenario_path,
                   results_path, child, pending, result>>

\* The end of the inner with block (line 60 / 111), in a worker thread: the
\* close flushes the buffer, written at the file object's offset 0 over
\* what the file holds by now, which another file object on the same file
\* may have put there.
CloseScenario(r) ==
    /\ pc[r] = "close_scenario" /\ io[r] = "queued"
    /\ files' = PutFile(files, new_scenario_file[r].path,
                        Overlay(files[new_scenario_file[r].path],
                                new_scenario_file[r].buffer))
    /\ new_scenario_file' = [new_scenario_file EXCEPT ![r] = NoFile]
    /\ io' = [io EXCEPT ![r] = "done"]
    /\ UNCHANGED <<closing_quotes, app, spacenet_timeout, dirs, running, pc, op,
                   filename, consume_resources, upload, content, scenario_path,
                   results_path, child, pending, result>>

\* The await that follows an await of the handler.
NextAwait(at) ==
    CASE at = "open_scenario" -> "read_upload"
      [] at = "read_upload" -> "write_scenario"
      [] at = "write_scenario" -> "close_scenario"
      [] at = "open_results" -> "read_results"
      [] at = "read_results" -> "close_results"
      [] OTHER -> "leave"

\* The event loop resumes the handler from an await whose operation is
\* done.  The handler runs to its next await and hands that operation to a
\* worker thread; or the operation has raised, or it was the close of the
\* result file (line 88 / 139), and the handler leaves the with block of
\* the temporary directory and runs to its end.  (From the close of the
\* staged file the handler goes on into CallEngine.)
Resume(r) ==
    /\ io[r] = "done" /\ running = 0
    /\ pc[r] \in {"open_scenario", "read_upload", "write_scenario", "open_results",
                  "read_results", "close_results"}
    /\ IF pending[r].kind \in {"none", "results"} /\ NextAwait(pc[r]) # "leave"
       THEN /\ pc' = [pc EXCEPT ![r] = NextAwait(pc[r])]
            /\ io' = [io EXCEPT ![r] = "queued"]
            /\ UNCHANGED running
       ELSE /\ pc' = [pc EXCEPT ![r] = "leave"]
            /\ io' = [io EXCEPT ![r] = "none"]
            /\ running' = r
    /\ UNCHANGED <<closing_quotes, app, spacenet_timeout, dirs, files, op, filename,
                   consume_resources, upload, content, scenario_path, results_path,
                   new_scenario_file, child, pending, result>>

\* Popen: the engine process starts with its argument list.
Spawn(argv) ==
    [state |-> "running", argv |-> argv, code |-> 0, output |-> "", wrote |-> NoText]

\* The process ends on its own, as behaviour b.
Exited(c, b) ==
    [state |-> "exited", argv |-> <<>>, code |-> b.code, output |-> b.output,
     wrote |-> b.wrote]

\* A process that is given up on instead of killed.
Abandoned(c) == c

\* subprocess.run on an exception: process.kill(), then process.wait().
Killed(c) ==
    [state |-> "killed", argv |-> <<>>, code |-> 0 - 9, output |-> "", wrote |-> NoText]

\* The -o argument of an argument list.
OutputPath(argv) == argv[9].p

\* The handler is resumed from the close of the staged file and enters
\* subprocess.check_output([...], timeout=spacenet_timeout) (lines 63-79 /
\* 114-130).  With a number for a timeout the call now waits for the
\* process, on the event-loop thread.  With a string for a timeout
\* communicate() raises TypeError as soon as the process is started, and the
\* process is killed.  The handler reads filename, content,
\* consume_resources and scenario_path no more after this call (the process
\* has them in its argument list): the model keeps a local while it is live.
CallEngine(r) ==
    /\ pc[r] = "close_scenario" /\ io[r] = "done" /\ running = 0
    /\ running' = r
    /\ io' = [io EXCEPT ![r] = "none"]
    /\ LET argv == EngineArgs(op[r], scenario_path[r], results_path[r],
                              consume_resources[r])
       IN  IF spacenet_timeout.number
           THEN /\ child' = [child EXCEPT ![r] = Spawn(argv)]
                /\ pc' = [pc EXCEPT ![r] = "wait"]
                /\ UNCHANGED pending
           ELSE /\ child' = [child EXCEPT ![r] = Killed(Spawn(argv))]
                /\ pending' = [pending EXCEPT ![r] = Raised("TypeError")]
                /\ pc' = [pc EXCEPT ![r] = "leave"]
    /\ filename' = [filename EXCEPT ![r] = NoFilename]
    /\ consume_resources' = [consume_resources EXCEPT ![r] = FALSE]
    /\ content' = [content EXCEPT ![r] = EmptyText]
    /\ scenario_path' = [scenario_path EXCEPT ![r] = <<>>]
    /\ UNCHANGED <<closing_quotes, app, spacenet_timeout, dirs, files, op, upload,
                   results_path, new_scenario_file, result>>

\* The engine exits within the timeout.  Code zero: check_output returns
\* and the handler runs to the opening of the result file (line 87 / 138),
\* which it hands to a worker thread.  Another code: CalledProcessError,
\* handled at line 80 / 131.
EngineExit(r) ==
    /\ pc[r] = "wait" /\ running = r /\ child[r].state = "running"
    /\ \E b \in EngineBehaviours :
          /\ files' = IF b.wrote = NoText THEN files
                       ELSE PutFile(files, Walk(dirs, OutputPath(child[r].argv)).path,
                                    b.wrote)
          /\ child' = [child EXCEPT ![r] = Exited(child[r], b)]
          /\ IF b.code = 0
             THEN /\ pc' = [pc EXCEPT ![r] = "open_results"]
                  /\ io' = [io EXCEPT ![r] = "queued"]
                  /\ running' = 0
                  /\ UNCHANGED pending
             ELSE /\ pending' = [pending EXCEPT ![r] = CalledProcessErrorHandler(b.output)]
                  /\ pc' = [pc EXCEPT ![r] = "leave"]
                  /\ UNCHANGED <<running, io>>
    /\ UNCHANGED <<closing_quotes, app, spacenet_timeout, dirs, op, filename,
                   consume_resources, upload, content, scenario_path, results_path,
                   new_scenario_file, result>>

\* The timeout passes with the engine still running: check_output kills the
\* process, waits for it and raises TimeoutExpired, handled at line 82 / 133.
EngineTimeout(r) ==
    /\ pc[r] = "wait" /\ running = r /\ child[r].state = "running"
    /\ spacenet_timeout.number
    /\ child' = [child EXCEPT ![r] = Killed(child[r])]
    /\ pending' = [pending EXCEPT ![r] = TimeoutExpiredHandler(spacenet_timeout)]
    /\ pc' = [pc EXCEPT ![r] = "leave"]
    /\ UNCHANGED <<closing_quotes, app, spacenet_timeout, dirs, files, running, io,
                   op, filename, consume_resources, upload, content, scenario_path,
                   results_path, new_scenario_file, result>>

\* aiofiles.open(results_path, "r") (line 87 / 138), in a worker thread:
\* the open raises when there is no such file.
OpenResults(r) ==
    /\ pc[r] = "open_results" /\ io[r] = "queued"
    /\ IF CanOpenRead(dirs, files, results_path[r])
       THEN UNCHANGED pending
       ELSE pending' = [pending EXCEPT ![r] = Raised("FileNotFoundError")]
    /\ io' = [io EXCEPT ![r] = "done"]
    /\ UNCHANGED <<closing_quotes, app, spacenet_timeout, dirs, files, running, pc,
                   op, filename, consume_resources, upload, content, scenario_path,
                   results_path, new_scenario_file, child, result>>

\* results = await results_file.read() (line 88 / 139), in a worker thread:
\* the text of the file as it is now.
ReadResults(r) ==
    /\ pc[r] = "read_results" /\ io[r] = "queued"
    /\ pending' = [pending EXCEPT ![r] =
                      [kind |-> "results", status |-> 0, detail |-> "",
                       text |-> files[Walk(dirs, results_path[r]).path]]]
    /\ io' = [io EXCEPT ![r] = "done"]
    /\ UNCHANGED <<closing_quotes, app, spacenet_timeout, dirs, files, running, pc,
                   op, filename, consume_resources, upload, content, scenario_path,
                   results_path, new_scenario_file, child, result>>

\* The end of the inner with block (line 88 / 139), in a worker thread: the
\* result file is closed.
CloseResults(r) ==
    /\ pc[r] = "close_results" /\ io[r] = "queued"
    /\ io' = [io EXCEPT ![r] = "done"]
    /\ UNCHANGED <<closing_quotes, app, spacenet_timeout, dirs, files, running, pc,
                   op, filename, consume_resources, upload, content, scenario_path,
                   results_path, new_scenario_file, child, pending, result>>

\* The with block is left, by an exception or by its end: the temporary
\* directory is removed; then the exception goes on to the framework, or
\* the text read is parsed and returned (line 89 / 140).  The handler's
\* locals end with it.
LeaveWith(r) ==
    /\ pc[r] = "leave" /\ running = r
    /\ dirs' = CleanupDirs(dirs, tempdir(r))
    /\ files' = CleanupFiles(files, tempdir(r))
    /\ result' = [result EXCEPT ![r] = Response(op[r], pending[r])]
    /\ pending' = [pending EXCEPT ![r] = NoPending]
    /\ pc' = [pc EXCEPT ![r] = "done"]
    /\ running' = 0
    /\ filename' = [filename EXCEPT ![r] = NoFilename]
    /\ consume_resources' = [consume_resources EXCEPT ![r] = FALSE]
    /\ upload' = [upload EXCEPT ![r] = EmptyText]
    /\ content' = [content EXCEPT ![r] = EmptyText]
    /\ scenario_path' = [scenario_path EXCEPT ![r] = <<>>]
    /\ results_path' = [results_path EXCEPT ![r] = <<>>]
    /\ new_scenario_file' = [new_scenario_file EXCEPT ![r] = NoFile]
    /\ UNCHANGED <<closing_quotes, app, spacenet_timeout, io, op, child>>

\* One step of request r.
Step(r) ==
    \/ Accept(r)
    \/ OpenScenario(r)
    \/ ReadUpload(r)
    \/ WriteScenario(r)
    \/ CloseScenario(r)
    \/ Resume(r)
    \/ CallEngine(r)
    \/ EngineExit(r)
    \/ EngineTimeout(r)
    \/ OpenResults(r)
    \/ ReadResults(r)
    \/ CloseResults(r)
    \/ LeaveWith(r)

Next ==
    \/ Import
    \/ \E r \in Requests : Step(r)

Spec == Init /\ [][Next]_vars

(***************************************************************************)
(* Properties                                                              *)
(***************************************************************************)

Done(r) == pc[r] = "done"

InFlight(r) == pc[r] \notin {"idle", "done"}

DirGone(r) ==
    /\ tempdir(r) \notin dirs
    /\ \A p \in DOMAIN files : ~IsPrefix(tempdir(r), p)

\* C1: once a request has finished, by whichever exit path, its temporary
\* directory and everything in it no longer exist.
C1_DirRemovedOnEveryExit == \A r \in Requests : Done(r) => DirGone(r)

\* C1 happens: one request ended by the engine's timeout and another by a
\* result file that does not parse, and both directories are gone.
C1_Witness ==
    \E r, s \in Requests :
        /\ Done(r) /\ child[r].state = "killed" /\ result[r].status = 422
        /\ Done(s) /\ result[s].error = "ValidationError"
        /\ DirGone(r) /\ DirGone(s)

\* What parsing a text as the model of endpoint o gives.
ModelParse(o, text) ==
    IF o = "demands-raw" THEN parse_raw("RawDemandsAnalysis", text)
    ELSE parse_raw("AggregatedDemandsAnalysis", text)

\* C2: when the engine has exited zero and written a text that parses as the
\* endpoint's model, the finished request answers 200 with the object that
\* parsing that text gives.
C2_ReturnsParsedResult ==
    \A r \in Requests :
        ( /\ Done(r) /\ child[r].state = "exited" /\ child[r].code = 0
          /\ child[r].wrote # NoText /\ ModelParse(op[r], child[r].wrote).ok )
        => /\ result[r].status = 200
           /\ result[r].body = ModelParse(op[r], child[r].wrote).val

\* C2 happens: an aggregated analysis with a node and an edge is returned.
C2_Witness ==
    \E r \in Requests :
        /\ Done(r) /\ op[r] = "demands-agg" /\ child[r].wrote = AggOk
        /\ result[r].status = 200
        /\ Len(result[r].body.edges) = 1 /\ Len(result[r].body.nodes) = 1

\* The engine of r was killed because the timeout passed.
TimedOut(r) == child[r].state = "killed" /\ spacenet_timeout.number

\* C3: a request whose engine ran past the timeout answers 422 with the
\* timeout message carrying the timeout value, and no directory is gone
\* while its request's engine process is still running.
C3_TimeoutKillsBeforeCleanup ==
    \A r \in Requests :
        /\ (Done(r) /\ TimedOut(r)) =>
              /\ result[r].status = 422
              /\ result[r].detail = "Timeout exceeded (" \o spacenet_timeout.text \o " s)"
              /\ result[r].detail = "Timeout exceeded (10 s)"
        /\ (tempdir(r) \notin dirs) => child[r].state # "running"

\* C3 happens: a request has ended by the timeout, its process is killed and
\* its directory is gone.
C3_Witness ==
    \E r \in Requests :
        /\ Done(r) /\ TimedOut(r) /\ result[r].status = 422 /\ DirGone(r)

\* C4: when the engine has exited with a non-zero code the request answers
\* 422 with the engine's captured output as the detail, and the result file
\* is neither read nor parsed.
C4_NonZeroExitGivesOutput ==
    \A r \in Requests :
        (child[r].state = "exited" /\ child[r].code # 0) =>
            /\ pc[r] \in {"leave", "done"}
            /\ pending[r].kind # "results"
            /\ Done(r) => /\ result[r].status = 422
                           /\ result[r].detail = child[r].output
                           /\ result[r].body = None

\* C4 happens: the engine failed with a message, having even left a file.
C4_Witness ==
    \E r \in Requests :
        /\ Done(r) /\ child[r].state = "exited" /\ child[r].code = 1
        /\ child[r].wrote = RawEmpty
        /\ child[r].output = "Exception in thread main"
        /\ result[r].detail = "Exception in thread main"

\* C5: a request that ends after the engine exited zero without there being
\* a file at the output path answers 422.
C5_MissingResultIs422 ==
    [][\A r \in Requests :
          ( /\ pc[r] = "leave" /\ pc'[r] = "done"
            /\ child[r].state = "exited" /\ child[r].code = 0
            /\ ~CanOpenRead(dirs, files, results_path[r]) )
          => result'[r].status = 422]_vars

\* The failure of r that is about to be answered is the engine's or its
\* output's: a non-zero exit, a timeout, or a result text that does not parse.
EngineCausedFailure(r) ==
    \/ child[r].state = "exited" /\ child[r].code # 0
    \/ TimedOut(r)
    \/ pending[r].kind = "results" /\ ~ModelParse(op[r], pending[r].text).ok

\* C6: every failure caused by the engine or its output is answered 422; a
\* result file that does not parse is never answered 500.
C6_EngineFailuresAre422 ==
    [][\A r \in Requests :
          (pc[r] = "leave" /\ pc'[r] = "done" /\ EngineCausedFailure(r))
          => result'[r].status = 422]_vars

\* The file the content of r is staged in.
StagedFile(r) == new_scenario_file[r].path

\* From the open of the staged file to its close.
Staging(r) == new_scenario_file[r] # NoFile

\* C7: the file a request stages its scenario in lies inside the request's
\* own directory and is not the result file, and no two requests stage in
\* the same file.
C7_StagedInsideOwnDir ==
    \A r \in Requests :
        Staging(r) =>
            /\ IsPrefix(tempdir(r), StagedFile(r))
            /\ StagedFile(r) # tempdir(r)
            /\ StagedFile(r) # Walk(dirs, results_path[r]).path
            /\ \A s \in Requests \ {r} : Staging(s) => StagedFile(s) # StagedFile(r)

\* C8: the engine's argument list holds the mode, the input path and the
\* output path, holds the flag -c exactly when consume_resources is true,
\* and holds nothing in the flag's place when it is false.
C8_FlagOnlyWhenTrue ==
    [][\A r \in Requests :
          (pc[r] = "close_scenario" /\ pc'[r] = "wait") =>
              LET argv == child'[r].argv
              IN  /\ StrArg(op[r]) \in Range(argv)
                  /\ PathArg(scenario_path[r]) \in Range(argv)
                  /\ PathArg(results_path[r]) \in Range(argv)
                  /\ (StrArg("-c") \in Range(argv)) <=> consume_resources[r]
                  /\ ~consume_resources[r] =>
                        /\ StrArg("") \notin Range(argv)
                        /\ Len(argv) = 9]_vars

\* The request is at a suspension point: waiting for a file operation or
\* for its engine.
Waiting(r) ==
    pc[r] \in {"open_scenario", "read_upload", "write_scenario", "close_scenario",
              "wait", "open_results", "read_results", "close_results"}

\* C9: while a request waits, every other request in flight can take a step.
C9_WaitingDoesNotBlock ==
    \A r, s \in Requests :
        (r # s /\ Waiting(r) /\ InFlight(s)) => ENABLED Step(s)

\* C10: every EdgeDemand of a returned analysis has its net cargo within
\* its max cargo, for mass and for volume.
C10_NetWithinMax ==
    \A r \in Requests :
        (result[r].status = 200 /\ op[r] = "demands-agg") =>
            \A i \in DOMAIN result[r].body.edges :
                LET e == result[r].body.edges[i]
                IN  /\ e.net_cargo_mass <= e.max_cargo_mass
                    /\ e.net_cargo_volume <= e.max_cargo_volume

====
